---- MODULE Spec2Model ----
\* Build pipeline (build_file) and watch worker (watch_file) of dfx,
\* modelled from src/dfx/src/lib/build.rs; the build command from
\* src/dfx/src/commands/build.rs; the command builders and environments
\* from src/dfx/src/lib/env.rs; dfx_version from src/dfx/src/config/mod.rs.
EXTENDS Integers, Sequences, FiniteSets, TLC

\* ---------------------------------------------------------------- bounds

\* Filesystem notifications the watcher delivers to one worker's channel.
MaxEvents == 3

\* Messages the caller sends on one cancellation handle.
MaxSends == 2

\* ---------------------------------------------------------------- paths
\* A path is a sequence of tokens: "/" separates components, "." is a dot
\* inside a component, ".." is the parent component, any other token is a
\* run of ordinary characters.

Arg(s) == <<s>>

RECURSIVE LastIndexOf(_, _, _)
LastIndexOf(p, tok, i) ==
    IF i = 0 THEN 0
    ELSE IF p[i] = tok THEN i
    ELSE LastIndexOf(p, tok, i - 1)

\* Path::file_name: the last component, none for an empty one or "..".
FileNameStart(p) == LastIndexOf(p, "/", Len(p)) + 1

FileName(p) == SubSeq(p, FileNameStart(p), Len(p))

HasFileName(p) == FileName(p) # <<>> /\ FileName(p) # <<"..">>

\* Path::file_stem: the file name up to its last dot; the whole name when it
\* has no dot or only a leading one.
FileStem(p) ==
    LET name == FileName(p)
        dot  == LastIndexOf(name, ".", Len(name))
    IN  IF dot <= 1 THEN name ELSE SubSeq(name, 1, dot - 1)

\* Path::with_extension: the path cut after its file stem, then "." and the
\* extension; the path unchanged when it has no file name.
WithExtension(p, ext) ==
    IF HasFileName(p)
    THEN SubSeq(p, 1, FileNameStart(p) - 1) \o FileStem(p) \o <<".", ext>>
    ELSE p

InputPaths ==
    { <<"main", ".", "src">>, <<"/", "in", "/", "file", ".", "as">> }

OutputPaths ==
    { <<"build", "/", "main">>,
      <<"/", "out", "/", "file", ".", "wasm">>,
      <<"out", ".", "d", "/", "a", ".", "b", ".", "c">>,
      <<"out", "/", ".", "hidden">>,
      <<"out", "/", "..">> }

\* ---------------------------------------------------------------- processes
\* What one external command can do: the binary cannot be resolved or
\* spawned (an io::Error), or the process runs and exits with a status and
\* some standard-error text.

Outcomes ==
    { [kind |-> "ioerr", status |-> 0, stderr |-> ""],
      [kind |-> "exit",  status |-> 0, stderr |-> ""],
      [kind |-> "exit",  status |-> 1, stderr |-> "syntax error"] }

Stages == <<"compile-to-binary", "compile-to-interface", "interface-to-bindings">>

\* ---------------------------------------------------------------- build_file
\* The state of one build_file call: at is the step about to run (1..3) or 0
\* when the call is not running; calls are the commands that ran, exits
\* their outcomes, result the value returned.

BuildIdle == [at |-> 0, calls |-> <<>>, exits |-> <<>>, result |-> [kind |-> "none"]]

BuildStart == [at |-> 1, calls |-> <<>>, exits |-> <<>>, result |-> [kind |-> "none"]]

ResultOk == [kind |-> "Ok"]

ResultIo == [kind |-> "Err", error |-> "Io"]

\* The command line of step k.
Command_OutputFirst(k, input, output) ==
    CASE k = 1 -> << Arg("asc"), Arg("-o"), WithExtension(output, "wasm"), input >>
      [] k = 2 -> << Arg("asc"), Arg("--idl"), Arg("-o"),
                     WithExtension(output, "did"), input >>
      [] k = 3 -> << Arg("didc"), Arg("--js"), Arg("-o"),
                     WithExtension(output, "js"), WithExtension(output, "did") >>

Command(k, input, output) ==
    CASE k = 1 -> << Arg("asc"), input, Arg("-o"), WithExtension(output, "wasm") >>
      [] k = 2 -> << Arg("asc"), Arg("--idl"), input, Arg("-o"),
                     WithExtension(output, "did") >>
      [] k = 3 -> << Arg("didc"), Arg("--js"), WithExtension(output, "did"),
                     Arg("-o"), WithExtension(output, "js") >>

\* One step of build_file: `get_binary_command(..)?. ... .output()?`. Only
\* an io::Error leaves the function; the exit status of a process that ran
\* is not looked at.
BuildStep(b, input, output, o) ==
    IF o.kind = "ioerr"
    THEN [b EXCEPT !.at = 0, !.result = ResultIo]
    ELSE [b EXCEPT !.at = IF b.at = 3 THEN 0 ELSE b.at + 1,
                   !.calls = Append(@, Command(b.at, input, output)),
                   !.exits = Append(@, o),
                   !.result = IF b.at = 3 THEN ResultOk ELSE @]

\* ---------------------------------------------------------------- project
\* The canisters of the project configuration and the paths the build
\* command derives for each: project_root.join(main) and
\* build_root.join(main).with_extension("wasm").

Canisters == {"a", "b"}

MainOf(c) == IF c = "b" THEN <<"lib", "/", c, ".", "as">> ELSE <<c, ".", "as">>

InputOf(c) == <<"proj", "/">> \o MainOf(c)

OutputOf(c) == WithExtension(<<"proj", "/", "build", "/">> \o MainOf(c), "wasm")

\* ---------------------------------------------------------------- state

VARIABLES
    input_path,     \* build_file's input_path (one-shot call)
    output_path,    \* build_file's output_path (one-shot call)
    bf,             \* the one-shot build_file call
    config,         \* the configuration's canisters, in iteration order
    exec,           \* the build command: mode, position in config, result
    dirs,           \* the directories that exist under the project root
    builder,        \* a command builder: its fields, setter calls, exec results
    children,       \* the child processes the builder's exec calls spawned
    is_debug,       \* the build profile: debug_assertions
    DFX_VERSION,    \* the static holding the memoized version
    dv,             \* the dfx_version call in progress and the calls made
    project,        \* the project configuration of the current directory
    env,            \* the environment from_current_dir constructs
    cache,          \* the versions installed in the on-disk cache
    probes,         \* the is_installed and install calls made, in order
    canisters,      \* the canisters watch mode is run for
    wf_ret,         \* per canister: what watch_file returned to its caller
    handle,         \* per canister: the returned Sender: none, held, dropped
    sends,          \* per canister: messages sent on the Sender so far
    receiver,       \* per canister: messages queued on the cancellation channel
    rx,             \* per canister: notifications queued on the event channel
    delivered,      \* per canister: notifications the watcher has delivered
    watched,        \* per canister: the filesystem watch is registered
    wpc,            \* per canister: where the worker thread is
    wbf,            \* per canister: the worker's current build_file call
    trace,          \* per canister: callbacks and build_file returns, in order
    recvd,          \* per canister: notifications the worker took from rx
    polled,         \* per canister: the worker has called try_recv
    cancelAt,       \* per canister: the worker's position at the first send
    bursts,         \* per canister: deliveries (one or more notifications at once)
    released        \* per canister: the results of the worker's unwatch calls

toolVars == << builder, children >>

envVars == << is_debug, DFX_VERSION, dv, project, env, cache, probes >>

buildVars == << input_path, output_path, bf, config, exec, dirs, toolVars, envVars >>

watchVars == << canisters, wf_ret, handle, sends, receiver, rx, delivered,
                watched, wpc, wbf, trace, recvd, polled, cancelAt, bursts,
                released >>

vars == << buildVars, watchVars >>

\* ---------------------------------------------------------------- helpers

RECURSIVE Count(_, _)
Count(s, x) ==
    IF s = <<>> THEN 0
    ELSE (IF Head(s) = x THEN 1 ELSE 0) + Count(Tail(s), x)

NStart(w) == Count(trace[w], "on_start")

NComplete(w) == Count(trace[w], "on_done") + Count(trace[w], "on_error")

NotCancelled == [sent |-> FALSE, pc |-> "none", starts |-> 0]

\* Option<T>.
None == [some |-> FALSE]

Some(x) == [some |-> TRUE, value |-> x]

\* No command builder, no dfx_version call, no environment.
BuilderNone == [kind |-> "none"]

DvIdle == [pc |-> "idle", depth |-> 0, caller |-> "none", calls |-> 0,
           assigned |-> 0, rets |-> <<>>]

EnvNone == [kind |-> "none", pc |-> "none"]

InitToolsIdle ==
    /\ builder = BuilderNone
    /\ children = <<>>
    /\ is_debug = TRUE
    /\ DFX_VERSION = None
    /\ dv = DvIdle
    /\ project = [found |-> FALSE]
    /\ env = EnvNone
    /\ cache = {}
    /\ probes = <<>>

\* The build command is not running.
ExecIdle == [mode |-> "none", i |-> 0, pc |-> "none", result |-> [kind |-> "none"],
             built |-> <<>>]

InitExecIdle ==
    /\ config = <<>>
    /\ exec = ExecIdle
    /\ dirs = {}
    /\ InitToolsIdle

InitWatchVars(cs) ==
    /\ canisters = cs
    /\ wf_ret = [w \in Canisters |-> "none"]
    /\ handle = [w \in Canisters |-> "none"]
    /\ sends = [w \in Canisters |-> 0]
    /\ receiver = [w \in Canisters |-> 0]
    /\ rx = [w \in Canisters |-> 0]
    /\ delivered = [w \in Canisters |-> 0]
    /\ watched = [w \in Canisters |-> FALSE]
    /\ wpc = [w \in Canisters |-> "nothread"]
    /\ wbf = [w \in Canisters |-> BuildIdle]
    /\ trace = [w \in Canisters |-> <<>>]
    /\ recvd = [w \in Canisters |-> 0]
    /\ polled = [w \in Canisters |-> FALSE]
    /\ cancelAt = [w \in Canisters |-> NotCancelled]
    /\ bursts = [w \in Canisters |-> 0]
    /\ released = [w \in Canisters |-> <<>>]

\* ---------------------------------------------------------------- one-shot build

InitBuild ==
    /\ input_path \in InputPaths
    /\ output_path \in OutputPaths
    /\ bf = BuildStart
    /\ InitExecIdle
    /\ InitWatchVars({})

\* build_file runs its next command.
BuildFileStep ==
    /\ bf.at \in 1..3
    /\ \E o \in Outcomes : bf' = BuildStep(bf, input_path, output_path, o)
    /\ UNCHANGED << input_path, output_path, config, exec, dirs, toolVars, envVars,
                    watchVars >>

NextBuild == BuildFileStep

SpecBuild == InitBuild /\ [][NextBuild]_vars

\* ---------------------------------------------------------------- watch_file

\* What registering the watch can do: watcher(tx, 1 s) fails, watch(file_path)
\* fails, or both succeed.
Registrations == {"watcher_err", "watch_err", "ok"}

\* watch_file returns before spawning when a registration step fails (`?`).
Spawns_BeforeRegistering(r) == TRUE

Spawns(r) == r = "ok"

\* The first thing the spawned closure does: build_and_notify, before the loop.
ThreadEntry_LoopFirst == "try_recv"

ThreadEntry == "on_start"

\* watch_file: create the channels, register the watch, spawn the worker,
\* return the Sender.
WatchFile(w) ==
    /\ w \in canisters
    /\ wf_ret[w] = "none"
    /\ \E r \in Registrations :
         /\ wf_ret' = [wf_ret EXCEPT ![w] = IF r = "ok" THEN "Ok" ELSE "Err"]
         /\ watched' = [watched EXCEPT ![w] = (r = "ok")]
         /\ handle' = [handle EXCEPT ![w] = IF r = "ok" THEN "held" ELSE "none"]
         /\ wpc' = [wpc EXCEPT ![w] = IF Spawns(r) THEN ThreadEntry ELSE "nothread"]
    /\ UNCHANGED << buildVars, canisters, released, sends, receiver, rx, delivered, wbf,
                    trace, recvd, polled, cancelAt, bursts >>

\* build_and_notify: on_start(file_path), then build_file is entered.
OnStart(w) ==
    /\ wpc[w] = "on_start"
    /\ trace' = [trace EXCEPT ![w] = Append(@, "on_start")]
    /\ wbf' = [wbf EXCEPT ![w] = BuildStart]
    /\ wpc' = [wpc EXCEPT ![w] = "build_file"]
    /\ UNCHANGED << buildVars, canisters, released, wf_ret, handle, sends, receiver, rx,
                    delivered, watched, recvd, polled, cancelAt, bursts >>

\* The worker's build_file runs its next command; after the last one, or an
\* io::Error, it returns.
WorkerBuildStep(w) ==
    /\ wpc[w] = "build_file"
    /\ \E o \in Outcomes :
         LET b == BuildStep(wbf[w], InputOf(w), OutputOf(w), o) IN
         /\ wbf' = [wbf EXCEPT ![w] = b]
         /\ wpc' = [wpc EXCEPT ![w] = IF b.at = 0 THEN "notify" ELSE "build_file"]
         /\ trace' = [trace EXCEPT ![w] =
                        IF b.at = 0 THEN Append(@, b.result.kind) ELSE @]
    /\ UNCHANGED << buildVars, canisters, released, wf_ret, handle, sends, receiver, rx,
                    delivered, watched, recvd, polled, cancelAt, bursts >>

\* `.map(|()| on_done(output_path)).map_err(on_error)`: the callback for
\* build_file's result.
Callback_AlwaysDone(result) == "on_done"

Callback_CallsStart(result) == "on_start"

Callback(result) == IF result.kind = "Ok" THEN "on_done" ELSE "on_error"

\* Where the worker goes after build_and_notify returned: the top of the loop.
AfterNotify_StopsOnError(result) ==
    IF result.kind = "Ok" THEN "try_recv" ELSE "unwatch"

AfterNotify_SkipsPoll(result) == "recv_timeout"

AfterNotify(result) == "try_recv"

Notify(w) ==
    /\ wpc[w] = "notify"
    /\ trace' = [trace EXCEPT ![w] = Append(@, Callback(wbf[w].result))]
    /\ wbf' = [wbf EXCEPT ![w] = BuildIdle]
    /\ wpc' = [wpc EXCEPT ![w] = AfterNotify(wbf[w].result)]
    /\ UNCHANGED << buildVars, canisters, released, wf_ret, handle, sends, receiver, rx,
                    delivered, watched, recvd, polled, cancelAt, bursts >>

\* `if receiver.try_recv().is_ok() { break; }`: a queued message ends the
\* loop; an empty or disconnected channel does not.
TryRecvIsOk_Inverted(w) == receiver[w] = 0

TryRecvIsOk_OrDisconnected(w) == receiver[w] > 0 \/ handle[w] = "dropped"

TryRecvIsOk(w) == receiver[w] > 0

TryRecv(w) ==
    /\ wpc[w] = "try_recv"
    /\ polled' = [polled EXCEPT ![w] = TRUE]
    /\ IF TryRecvIsOk(w)
       THEN /\ receiver' = [receiver EXCEPT ![w] = IF @ > 0 THEN @ - 1 ELSE 0]
            /\ wpc' = [wpc EXCEPT ![w] = "unwatch"]
       ELSE /\ receiver' = receiver
            /\ wpc' = [wpc EXCEPT ![w] = "recv_timeout"]
    /\ UNCHANGED << buildVars, canisters, released, wf_ret, handle, sends, rx, delivered,
                    watched, wbf, trace, recvd, cancelAt, bursts >>

\* What the worker does with a notification it received: build once more.
OnNotification_Drains(n) == 0

OnNotification_Keeps(n) == n

OnNotification(n) == n - 1

\* `rx.recv_timeout(80 ms).is_ok()`: a notification is taken from the channel.
RecvOk(w) ==
    /\ wpc[w] = "recv_timeout"
    /\ rx[w] > 0
    /\ rx' = [rx EXCEPT ![w] = OnNotification(@)]
    /\ recvd' = [recvd EXCEPT ![w] = @ + 1]
    /\ wpc' = [wpc EXCEPT ![w] = "on_start"]
    /\ UNCHANGED << buildVars, canisters, released, wf_ret, handle, sends, receiver,
                    delivered, watched, wbf, trace, polled, cancelAt, bursts >>

\* rx.recv_timeout: nothing arrived for 80 ms; back to the top of the loop.
RecvTimeout(w) ==
    /\ wpc[w] = "recv_timeout"
    /\ rx[w] = 0
    /\ wpc' = [wpc EXCEPT ![w] = "try_recv"]
    /\ UNCHANGED << buildVars, canisters, released, wf_ret, handle, sends, receiver, rx,
                    delivered, watched, wbf, trace, recvd, polled, cancelAt, bursts >>

\* What watcher.unwatch can return.
UnwatchResults == {"ok", "err"}

\* The callbacks invoked for unwatch's result: none, it is ignored
\* (`#[allow(unused_must_use)]`).
TeardownCallbacks_ReportsError(res) == IF res = "err" THEN <<"on_error">> ELSE <<>>

TeardownCallbacks(res) == <<>>

\* Where the worker goes after unwatch returned: the closure ends.
AfterUnwatch_RetriesOnError(res) == IF res = "err" THEN "unwatch" ELSE "exited"

AfterUnwatch(res) == "exited"

\* `watcher.unwatch(fp)` after the loop, its result ignored; the closure
\* then ends and drops the watcher (which releases a watch that unwatch
\* could not) and both receivers.
Unwatch(w) ==
    /\ wpc[w] = "unwatch"
    /\ \E res \in UnwatchResults :
         /\ released' = [released EXCEPT ![w] = Append(@, res)]
         /\ trace' = [trace EXCEPT ![w] = @ \o TeardownCallbacks(res)]
         /\ wpc' = [wpc EXCEPT ![w] = AfterUnwatch(res)]
    /\ watched' = [watched EXCEPT ![w] = FALSE]
    /\ rx' = [rx EXCEPT ![w] = 0]
    /\ receiver' = [receiver EXCEPT ![w] = 0]
    /\ UNCHANGED << buildVars, canisters, wf_ret, handle, sends, delivered,
                    wbf, recvd, polled, cancelAt, bursts >>

\* ---------------------------------------------------------------- environment

\* The notify watcher puts one notification, or a burst of several at once,
\* on the worker's event channel.
FsEvent(w) ==
    /\ watched[w]
    /\ \E n \in 1..(MaxEvents - delivered[w]) :
         /\ rx' = [rx EXCEPT ![w] = @ + n]
         /\ delivered' = [delivered EXCEPT ![w] = @ + n]
    /\ bursts' = [bursts EXCEPT ![w] = @ + 1]
    /\ UNCHANGED << buildVars, canisters, released, wf_ret, handle, sends, receiver,
                    watched, wpc, wbf, trace, recvd, polled, cancelAt >>

\* The receivers a message sent on canister w's Sender reaches: the one
\* created with it by the same watch_file call (`channel()`).
CancelTargets_Shared(w) == Canisters

CancelTargets(w) == {w}

\* The holder of the Sender sends the cancellation signal.
SendCancel(w) ==
    /\ handle[w] = "held"
    /\ sends[w] < MaxSends
    /\ sends' = [sends EXCEPT ![w] = @ + 1]
    /\ receiver' = [v \in Canisters |->
                      IF v \in CancelTargets(w) /\ wpc[v] # "exited"
                      THEN receiver[v] + 1 ELSE receiver[v]]
    /\ cancelAt' = [cancelAt EXCEPT ![w] =
                      IF @.sent THEN @
                      ELSE [sent |-> TRUE, pc |-> wpc[w], starts |-> NStart(w)]]
    /\ UNCHANGED << buildVars, canisters, released, wf_ret, handle, rx, delivered,
                    watched, wpc, wbf, trace, recvd, polled, bursts >>

\* The holder of the Sender drops it without sending.
DropHandle(w) ==
    /\ handle[w] = "held"
    /\ handle' = [handle EXCEPT ![w] = "dropped"]
    /\ UNCHANGED << buildVars, canisters, released, wf_ret, sends, receiver, rx, delivered,
                    watched, wpc, wbf, trace, recvd, polled, cancelAt, bursts >>

\* ---------------------------------------------------------------- watch mode

Init ==
    /\ input_path = <<>>
    /\ output_path = <<>>
    /\ bf = BuildIdle
    /\ InitExecIdle
    /\ InitWatchVars({"a"})

Worker(w) ==
    \/ OnStart(w)
    \/ WorkerBuildStep(w)
    \/ Notify(w)
    \/ TryRecv(w)
    \/ RecvOk(w)
    \/ RecvTimeout(w)
    \/ Unwatch(w)

Next ==
    \E w \in Canisters :
        \/ WatchFile(w)
        \/ Worker(w)
        \/ FsEvent(w)
        \/ SendCancel(w)
        \/ DropHandle(w)

Spec == Init /\ [][Next]_vars

\* The worker thread is scheduled, and every external process and callback
\* it waits for returns.
FairSpec == Spec /\ \A w \in Canisters : WF_vars(Worker(w))

\* ---------------------------------------------------------------- notifications without end
\* After the cancellation message was sent the watcher may go on delivering
\* notifications for as long as the watch is registered. The worker only
\* asks whether the event channel is empty, so a channel that already holds
\* MaxQueued notifications is not filled further.

MaxQueued == 2

\* Notifications delivered to one worker before the message is sent.
MaxEarlyEvents == 1

FsEventFlood(w) ==
    /\ watched[w]
    /\ cancelAt[w].sent
    /\ rx[w] < MaxQueued
    /\ rx' = [rx EXCEPT ![w] = @ + 1]
    /\ delivered' = [delivered EXCEPT ![w] = @ + 1]
    /\ bursts' = [bursts EXCEPT ![w] = @ + 1]
    /\ UNCHANGED << buildVars, canisters, released, wf_ret, handle, sends, receiver,
                    watched, wpc, wbf, trace, recvd, polled, cancelAt >>

\* Up to MaxEarlyEvents notifications before the message is sent.
FsEventEarly(w) ==
    /\ ~cancelAt[w].sent
    /\ FsEvent(w)
    /\ delivered'[w] <= MaxEarlyEvents

NextFlood ==
    \E w \in Canisters :
        \/ WatchFile(w)
        \/ Worker(w)
        \/ FsEventEarly(w)
        \/ FsEventFlood(w)
        \/ SendCancel(w)
        \/ DropHandle(w)

SpecFlood == Init /\ [][NextFlood]_vars

FairSpecFlood == SpecFlood /\ \A w \in Canisters : WF_vars(Worker(w))

\* ---------------------------------------------------------------- several workers
\* Watch mode for two canisters: exec calls watch_file once per canister, so
\* two workers run side by side. What bounds this state space is the
\* environment alone: the notifications and cancellation messages are
\* counted over both workers together, and every external process runs and
\* exits with status zero.

\* Notifications delivered to all workers together.
MaxMultiEvents == 1

\* Cancellation messages sent to all workers together.
MaxMultiSends == 1

RECURSIVE Sum(_, _)
Sum(f, S) ==
    IF S = {} THEN 0
    ELSE LET x == CHOOSE y \in S : TRUE IN f[x] + Sum(f, S \ {x})

MultiBound ==
    /\ Sum(delivered, Canisters) <= MaxMultiEvents
    /\ Sum(sends, Canisters) <= MaxMultiSends
    /\ \A w \in Canisters :
          /\ wbf[w].result # ResultIo
          /\ "Err" \notin {trace[w][i] : i \in DOMAIN trace[w]}
          /\ \A k \in DOMAIN wbf[w].exits : wbf[w].exits[k].status = 0

InitMulti ==
    /\ input_path = <<>>
    /\ output_path = <<>>
    /\ bf = BuildIdle
    /\ InitExecIdle
    /\ InitWatchVars(Canisters)

NextMulti == Next /\ MultiBound'

SpecMulti == InitMulti /\ [][NextMulti]_vars

\* ---------------------------------------------------------------- the build command
\* exec of commands/build.rs: for every canister of the configuration that
\* has a main file, create the output directory, then build it (one-shot
\* mode) or start watching it (watch mode).

EntryKinds == {"main", "nomain", "invalid"}

Entries == [name : Canisters, kind : EntryKinds]

\* The configurations: the canisters in the order the map iterates them.
Configs ==
    {<<>>} \cup { <<e>> : e \in Entries }
           \cup { s \in Entries \X Entries : s[1].name # s[2].name }

\* Path::parent of a path that has one.
Parent(p) == SubSeq(p, 1, LastIndexOf(p, "/", Len(p)) - 1)

\* d and the directories above it.
Ancestors(d) == {d} \cup { SubSeq(d, 1, i - 1) : i \in {j \in 2..Len(d) : d[j] = "/"} }

OutputDirOf(c) == Parent(OutputOf(c))

InitialDirs == { {<<"proj">>}, {<<"proj">>, <<"proj", "/", "build">>} }

ExecReturn(result) == [exec EXCEPT !.pc = "returned", !.result = result]

\* What exec does first for a canister that has a main file.
AfterEntry_NoDir == "call"

AfterEntry == "create_dir_all"

\* The head of the loop: `for (k, v) in canisters`, `from_value(v)?`,
\* `if let Some(x) = v.main`; after the last canister, `Ok(())`.
ExecLoop ==
    /\ exec.pc = "loop"
    /\ exec' =
         IF exec.i > Len(config) THEN ExecReturn(ResultOk)
         ELSE CASE config[exec.i].kind = "invalid" ->
                     ExecReturn([kind |-> "Err", error |-> "Json",
                                 at |-> "from_value",
                                 canister |-> config[exec.i].name])
                [] config[exec.i].kind = "nomain" -> [exec EXCEPT !.i = @ + 1]
                [] config[exec.i].kind = "main" -> [exec EXCEPT !.pc = AfterEntry]
    /\ UNCHANGED << input_path, output_path, bf, config, dirs, toolVars, envVars,
                    watchVars >>

\* `std::fs::create_dir_all(output_path.parent().unwrap())?`: succeeds on a
\* directory that exists; otherwise creates it and its missing ancestors, or
\* fails having created some of the ancestors.
ExecCreateDirAll ==
    /\ exec.pc = "create_dir_all"
    /\ LET c == config[exec.i].name
           d == OutputDirOf(c)
       IN  \/ /\ dirs' = dirs \cup Ancestors(d)
              /\ exec' = [exec EXCEPT !.pc = "call"]
           \/ /\ d \notin dirs
              /\ \E a \in Ancestors(d) \ {d} : dirs' = dirs \cup Ancestors(a)
              /\ exec' = ExecReturn([kind |-> "Err", error |-> "Io",
                                     at |-> "create_dir_all", canister |-> c])
    /\ UNCHANGED << input_path, output_path, bf, config, toolVars, envVars, watchVars >>

\* exec enters build_file (one-shot mode) or watch_file (watch mode) for the
\* canister.
ExecCall ==
    /\ exec.pc = "call"
    /\ LET c == config[exec.i].name IN
         IF exec.mode = "build"
         THEN /\ input_path' = InputOf(c)
              /\ output_path' = OutputOf(c)
              /\ bf' = BuildStart
              /\ exec' = [exec EXCEPT !.pc = "build_file"]
              /\ UNCHANGED canisters
         ELSE /\ canisters' = canisters \cup {c}
              /\ exec' = [exec EXCEPT !.pc = "watch_file"]
              /\ UNCHANGED << input_path, output_path, bf >>
    /\ UNCHANGED << config, dirs, toolVars, envVars, wf_ret, handle, sends, receiver, rx, delivered,
                    watched, wpc, wbf, trace, recvd, polled, cancelAt, bursts,
                    released >>

\* The `?` operator: an Err value is returned from exec at once.
Propagates_Never(result) == FALSE

Propagates(result) == result.kind = "Err"

\* `build_file(env, &input_as_path, &output_path)?`: an error ends exec, Ok
\* goes on to the next canister.
ExecBuildReturned ==
    /\ exec.pc = "build_file"
    /\ bf.at = 0
    /\ LET c == config[exec.i].name
           done == Append(exec.built, [canister |-> c, calls |-> Len(bf.calls),
                                       result |-> bf.result.kind])
       IN  exec' =
             IF ~Propagates(bf.result)
             THEN [exec EXCEPT !.built = done, !.i = @ + 1, !.pc = "loop"]
             ELSE [exec EXCEPT !.built = done, !.pc = "returned",
                               !.result = [kind |-> "Err", error |-> bf.result.error,
                                           at |-> "build_file", canister |-> c]]
    /\ bf' = BuildIdle
    /\ UNCHANGED << input_path, output_path, config, dirs, toolVars, envVars,
                    watchVars >>

\* `watch_file(..)?;`: an error ends exec; the Sender returned with Ok is
\* dropped at the end of the statement.
ExecWatchReturned ==
    /\ exec.pc = "watch_file"
    /\ LET c == config[exec.i].name IN
         /\ wf_ret[c] # "none"
         /\ IF wf_ret[c] = "Ok"
            THEN /\ handle' = [handle EXCEPT ![c] = "dropped"]
                 /\ exec' = [exec EXCEPT !.i = @ + 1, !.pc = "loop"]
            ELSE /\ handle' = handle
                 /\ exec' = ExecReturn([kind |-> "Err", error |-> "Notify",
                                        at |-> "watch_file", canister |-> c])
    /\ UNCHANGED << input_path, output_path, bf, config, dirs, toolVars, envVars,
                    canisters, wf_ret,
                    sends, receiver, rx, delivered, watched, wpc, wbf, trace,
                    recvd, polled, cancelAt, bursts, released >>

ExecModes == {"build", "watch"}

InitExec ==
    /\ input_path = <<>>
    /\ output_path = <<>>
    /\ bf = BuildIdle
    /\ config \in Configs
    /\ \E m \in ExecModes :
         exec = [mode |-> m, i |-> 1, pc |-> "loop", result |-> [kind |-> "none"],
                 built |-> <<>>]
    /\ dirs \in InitialDirs
    /\ InitToolsIdle
    /\ InitWatchVars({})

\* The worker's steps inside its loop. exec sends nothing on the Sender it
\* gets, so a worker it started never leaves the loop and Unwatch is not a
\* step of these workers.
WorkerLoop(w) ==
    \/ OnStart(w)
    \/ WorkerBuildStep(w)
    \/ Notify(w)
    \/ TryRecv(w)
    \/ RecvOk(w)
    \/ RecvTimeout(w)

ExecStep ==
    \/ ExecLoop
    \/ ExecCreateDirAll
    \/ ExecCall
    \/ BuildFileStep
    \/ ExecBuildReturned
    \/ ExecWatchReturned
    \/ \E w \in Canisters : WatchFile(w) \/ WorkerLoop(w) \/ FsEvent(w)

NextExec == ExecStep /\ MultiBound'

SpecExec == InitExec /\ [][NextExec]_vars

\* ---------------------------------------------------------------- command builders
\* ActorScriptCommandBuilder and IdlCompilerCommandBuilder of lib/env.rs: a
\* builder holds the binary, an optional input and output path and a flag;
\* exec puts the command line together, runs it once and maps the outcome.

\* Setter calls made on one builder.
MaxSetterCalls == 3

\* exec calls made on one builder.
MaxExecs == 1

Builders == {"ActorScript", "IdlCompiler"}

BinaryOf(kind) == IF kind = "ActorScript" THEN "asc" ELSE "didc"

FlagOf(kind) == IF kind = "ActorScript" THEN "--idl" ELSE "--js"

ErrorKindOf(kind) == IF kind = "ActorScript" THEN "ActorScriptError" ELSE "IdlCompilerError"

\* `new`: no paths, flag off.
BuilderNew(kind) ==
    [kind |-> kind, input_path |-> None, output_path |-> None, flag |-> FALSE,
     setters |-> <<>>, results |-> <<>>]

BuilderPaths == { <<"main", ".", "as">>, <<"out", "/", "main", ".", "did">> }

\* What a run of the command can do: fail to spawn, or exit with a status
\* having written to stdout and stderr; stderr need not be valid UTF-8.
BuilderOutcomes ==
    { [kind |-> "ioerr"],
      [kind |-> "exit", status |-> 0, stdout |-> "", stderr |-> [text |-> "", utf8 |-> TRUE]],
      [kind |-> "exit", status |-> 0, stdout |-> "error", stderr |-> [text |-> "warning", utf8 |-> TRUE]],
      [kind |-> "exit", status |-> 1, stdout |-> "", stderr |-> [text |-> "syntax error", utf8 |-> TRUE]],
      [kind |-> "exit", status |-> 1, stdout |-> "", stderr |-> [text |-> "\\xff", utf8 |-> FALSE]] }

\* The command line exec puts together: the binary, the input if set, "-o"
\* and the output if set, the flag if set.
BuilderArgs(b) ==
    << Arg(BinaryOf(b.kind)) >>
      \o (IF b.input_path.some THEN << b.input_path.value >> ELSE <<>>)
      \o (IF b.output_path.some THEN << Arg("-o"), b.output_path.value >> ELSE <<>>)
      \o (IF b.flag THEN << Arg(FlagOf(b.kind)) >> ELSE <<>>)

\* What exec returns for an outcome: `cmd.output()?`, then Ok on success,
\* else `from_utf8(stderr)?` and the builder's error with the text.
BuilderResult_Lossy(kind, o) ==
    IF o.kind = "ioerr" THEN ResultIo
    ELSE IF o.status = 0 THEN ResultOk
    ELSE [kind |-> "Err", error |-> "BuildError", tool |-> ErrorKindOf(kind),
          text |-> o.stderr.text]

BuilderResult(kind, o) ==
    IF o.kind = "ioerr" THEN ResultIo
    ELSE IF o.status = 0 THEN ResultOk
    ELSE IF o.stderr.utf8
         THEN [kind |-> "Err", error |-> "BuildError", tool |-> ErrorKindOf(kind),
               text |-> o.stderr.text]
         ELSE [kind |-> "Err", error |-> "Utf8"]

BuilderFrame ==
    UNCHANGED << input_path, output_path, bf, config, exec, dirs, envVars, watchVars >>

\* builder.input(p), builder.output(p), builder.build_idl() / build_js().
BuilderInput ==
    /\ builder.kind \in Builders
    /\ Len(builder.setters) < MaxSetterCalls
    /\ \E p \in BuilderPaths :
         builder' = [builder EXCEPT !.input_path = Some(p),
                                    !.setters = Append(@, "input")]
    /\ UNCHANGED children
    /\ BuilderFrame

BuilderOutput ==
    /\ builder.kind \in Builders
    /\ Len(builder.setters) < MaxSetterCalls
    /\ \E p \in BuilderPaths :
         builder' = [builder EXCEPT !.output_path = Some(p),
                                    !.setters = Append(@, "output")]
    /\ UNCHANGED children
    /\ BuilderFrame

BuilderFlag ==
    /\ builder.kind \in Builders
    /\ Len(builder.setters) < MaxSetterCalls
    /\ builder' = [builder EXCEPT !.flag = TRUE, !.setters = Append(@, "flag")]
    /\ UNCHANGED children
    /\ BuilderFrame

\* builder.exec(): one `cmd.output()`; a process that was spawned is added
\* to children with its command line.
BuilderExec ==
    /\ builder.kind \in Builders
    /\ Len(builder.results) < MaxExecs
    /\ \E o \in BuilderOutcomes :
         /\ children' = IF o.kind = "ioerr" THEN children
                        ELSE Append(children, [argv |-> BuilderArgs(builder),
                                               of |-> builder, outcome |-> o])
         /\ builder' = [builder EXCEPT !.results =
                          Append(@, [outcome |-> o,
                                     result |-> BuilderResult(builder.kind, o),
                                     spawned |-> Len(children') - Len(children)])]
    /\ BuilderFrame

InitBuilder ==
    /\ input_path = <<>>
    /\ output_path = <<>>
    /\ bf = BuildIdle
    /\ config = <<>>
    /\ exec = ExecIdle
    /\ dirs = {}
    /\ \E kind \in Builders : builder = BuilderNew(kind)
    /\ children = <<>>
    /\ is_debug = TRUE
    /\ DFX_VERSION = None
    /\ dv = DvIdle
    /\ project = [found |-> FALSE]
    /\ env = EnvNone
    /\ cache = {}
    /\ probes = <<>>
    /\ InitWatchVars({})

NextBuilder == BuilderInput \/ BuilderOutput \/ BuilderFlag \/ BuilderExec

SpecBuilder == InitBuilder /\ [][NextBuilder]_vars

\* ---------------------------------------------------------------- version and environments
\* dfx_version and is_debug of config/mod.rs; InProjectEnvironment and
\* GlobalEnvironment of lib/env.rs. A version is a sequence of tokens.

\* Calls of dfx_version made by code other than from_current_dir.
MaxCalls == 2

\* Frames of dfx_version the stack has room for.
StackFrames == 3

\* is_installed and install calls made on the environment.
MaxProbes == 3

\* env!("CARGO_PKG_VERSION") and format!("{}-debug", version).
PkgVersion == <<"pkg">>

DebugVersion == PkgVersion \o <<"-debug">>

DeclaredVersions == { <<"declared">> }

Versions == {PkgVersion, DebugVersion} \cup DeclaredVersions

\* The current directory: no project, or a project whose configuration
\* declares a dfx version or none.
Projects ==
    {[found |-> FALSE]} \cup
    { [found |-> TRUE, dfx |-> d] : d \in {None} \cup {Some(v) : v \in DeclaredVersions} }

EnvKinds == {"InProject", "Global"}

EnvFrame ==
    UNCHANGED << input_path, output_path, bf, config, exec, dirs, toolVars, watchVars >>

DvCalled(by) ==
    [dv EXCEPT !.pc = "running", !.depth = 1, !.caller = by, !.calls = @ + 1]

\* Some code calls dfx_version().
DfxVersionCall ==
    /\ dv.pc \in {"idle", "returned"}
    /\ env.pc # "dfx_version"
    /\ dv.calls < MaxCalls
    /\ dv' = DvCalled("other")
    /\ UNCHANGED << is_debug, DFX_VERSION, project, env, cache, probes >>
    /\ EnvFrame

\* What the None arm leaves in DFX_VERSION before it calls dfx_version()
\* again: the debug version in a debug build, nothing otherwise.
Memoized(debug) == IF debug THEN Some(DebugVersion) ELSE None

\* One evaluation of dfx_version's body: `match &DFX_VERSION`. Some(x)
\* returns x through every frame. None assigns as Memoized says and calls
\* dfx_version() again, in a new frame or, as a tail call, in the same one;
\* a frame the stack has no room for ends the process.
DfxVersionStep ==
    /\ dv.pc = "running"
    /\ IF DFX_VERSION.some
       THEN /\ dv' = [dv EXCEPT !.pc = "returned", !.depth = 0,
                                !.rets = Append(@, DFX_VERSION.value)]
            /\ UNCHANGED DFX_VERSION
       ELSE /\ DFX_VERSION' = Memoized(is_debug)
            /\ \E grow \in BOOLEAN :
                 dv' = [dv EXCEPT
                          !.assigned = IF DFX_VERSION'.some THEN @ + 1 ELSE @,
                          !.depth = IF grow /\ @ < StackFrames THEN @ + 1 ELSE @,
                          !.pc = IF grow /\ dv.depth = StackFrames
                                 THEN "stack overflow" ELSE @]
    /\ UNCHANGED << is_debug, project, env, cache, probes >>
    /\ EnvFrame

\* from_current_dir asks dfx_version() only when it has no declared
\* version: `get_dfx().unwrap_or_else(|| dfx_version().to_owned())` in a
\* project, always in the global environment.
NeedsDefault_Always(kind, proj) == TRUE

NeedsDefault(kind, proj) == kind = "Global" \/ ~proj.dfx.some

\* The environment struct: `version: version.clone()` and
\* `binary_map: VersionedBinaryMap { version }`.
MakeEnv(kind, version) ==
    [kind |-> kind, pc |-> "constructed", version |-> version,
     binary_map |-> [version |-> version]]

\* InProjectEnvironment::from_current_dir / GlobalEnvironment::from_current_dir
\* up to the call of dfx_version, if there is one.
EnvFromCurrentDir ==
    /\ env.pc = "none"
    /\ dv.pc \in {"idle", "returned"}
    /\ \E kind \in EnvKinds :
         IF kind = "InProject" /\ ~project.found
         THEN /\ env' = [kind |-> kind, pc |-> "failed"]
              /\ UNCHANGED dv
         ELSE IF NeedsDefault(kind, project)
         THEN /\ env' = [kind |-> kind, pc |-> "dfx_version"]
              /\ dv' = DvCalled("env")
         ELSE /\ env' = MakeEnv(kind, project.dfx.value)
              /\ UNCHANGED dv
    /\ UNCHANGED << is_debug, DFX_VERSION, project, cache, probes >>
    /\ EnvFrame

\* dfx_version() has returned to from_current_dir.
EnvConstructed ==
    /\ env.pc = "dfx_version"
    /\ dv.pc = "returned"
    /\ env' = MakeEnv(env.kind, dv.rets[Len(dv.rets)])
    /\ UNCHANGED << is_debug, DFX_VERSION, dv, project, cache, probes >>
    /\ EnvFrame

\* cache::is_version_installed: whether the version is in the on-disk
\* cache, or an io error.
CacheIsVersionInstalled(installed, version, io) ==
    IF io THEN [kind |-> "Ok", value |-> version \in installed]
    ELSE ResultIo

\* is_installed: `if is_debug() { return Ok(false); }`, else the cache's
\* answer.
IsInstalledResult_CacheOnly(debug, cached) == cached

IsInstalledResult(debug, cached) ==
    IF debug THEN [kind |-> "Ok", value |-> FALSE] ELSE cached

IsInstalled ==
    /\ env.pc = "constructed"
    /\ Len(probes) < MaxProbes
    /\ \E io \in BOOLEAN :
         LET cached == CacheIsVersionInstalled(cache, env.version, io)
         IN  probes' = Append(probes,
                 [op |-> "is_installed", version |-> env.version, cache |-> cache,
                  cached |-> cached,
                  result |-> IsInstalledResult(is_debug, cached)])
    /\ UNCHANGED << is_debug, DFX_VERSION, dv, project, env, cache >>
    /\ EnvFrame

\* install: `cache::install_version(self.version.as_str()).map(|_| ())`.
Install ==
    /\ env.pc = "constructed"
    /\ Len(probes) < MaxProbes
    /\ \E io \in BOOLEAN :
         /\ cache' = IF io THEN cache \cup {env.version} ELSE cache
         /\ probes' = Append(probes,
                 [op |-> "install", version |-> env.version, cache |-> cache,
                  result |-> IF io THEN ResultOk ELSE ResultIo])
    /\ UNCHANGED << is_debug, DFX_VERSION, dv, project, env >>
    /\ EnvFrame

InitEnv ==
    /\ input_path = <<>>
    /\ output_path = <<>>
    /\ bf = BuildIdle
    /\ config = <<>>
    /\ exec = ExecIdle
    /\ dirs = {}
    /\ builder = BuilderNone
    /\ children = <<>>
    /\ is_debug \in BOOLEAN
    /\ DFX_VERSION = None
    /\ dv = DvIdle
    /\ project \in Projects
    /\ env = EnvNone
    /\ cache \in SUBSET Versions
    /\ probes = <<>>
    /\ InitWatchVars({})

NextEnv ==
    \/ DfxVersionCall
    \/ DfxVersionStep
    \/ EnvFromCurrentDir
    \/ EnvConstructed
    \/ IsInstalled
    \/ Install

SpecEnv == InitEnv /\ [][NextEnv]_vars

\* A call of dfx_version that is running keeps running.
FairSpecEnv == SpecEnv /\ WF_vars(DfxVersionStep)

\* ---------------------------------------------------------------- build_file properties

Finished(b) == b.at = 0 /\ b.result.kind # "none"

EveryStepSucceeded(b) ==
    /\ Finished(b)
    /\ b.result # ResultIo
    /\ \A k \in DOMAIN b.exits : b.exits[k].status = 0

\* The output stem: the output path without the extension of its last component.
StemOf(p) == SubSeq(p, 1, FileNameStart(p) - 1) \o FileStem(p)

ExpectedCalls(input, stem) ==
    << << Arg("asc"), input, Arg("-o"), stem \o <<".", "wasm">> >>,
       << Arg("asc"), Arg("--idl"), input, Arg("-o"), stem \o <<".", "did">> >>,
       << Arg("didc"), Arg("--js"), stem \o <<".", "did">>, Arg("-o"),
          stem \o <<".", "js">> >> >>

\* C1: a build_file run in which every step succeeds has invoked exactly
\* `asc <input> -o <stem>.wasm`, `asc --idl <input> -o <stem>.did` and
\* `didc --js <stem>.did -o <stem>.js`, in this order, and returned Ok; the
\* stem is the output path (one with a file name) without its extension. The
\* spec's scenario (main.src, build/main) and the test's (/in/file.as,
\* /out/file.wasm) are spelled out.
C1_ThreeCommandsInOrder ==
    /\ (EveryStepSucceeded(bf) /\ HasFileName(output_path)) =>
          /\ bf.calls = ExpectedCalls(input_path, StemOf(output_path))
          /\ bf.result = ResultOk
    /\ (EveryStepSucceeded(bf) /\ input_path = <<"main", ".", "src">>
                               /\ output_path = <<"build", "/", "main">>) =>
          bf.calls = ExpectedCalls(<<"main", ".", "src">>, <<"build", "/", "main">>)
    /\ (EveryStepSucceeded(bf) /\ input_path = <<"/", "in", "/", "file", ".", "as">>
                               /\ output_path = <<"/", "out", "/", "file", ".", "wasm">>) =>
          bf.calls = ExpectedCalls(<<"/", "in", "/", "file", ".", "as">>,
                                   <<"/", "out", "/", "file">>)

C1_Witness ==
    /\ EveryStepSucceeded(bf)
    /\ Len(bf.calls) = 3
    /\ output_path = <<"/", "out", "/", "file", ".", "wasm">>

HasFailure(b) == \E k \in DOMAIN b.exits : b.exits[k].status # 0

FirstFailure(b) ==
    CHOOSE k \in DOMAIN b.exits :
        /\ b.exits[k].status # 0
        /\ \A j \in 1..(k - 1) : b.exits[j].status = 0

\* C2: the first step that exits non-zero aborts build_file: no later step
\* is invoked, and the error returned names that step's stage and carries its
\* standard-error text.
C2_FirstFailureAborts ==
    (HasFailure(bf) /\ bf.result # ResultIo) =>
        /\ Len(bf.calls) = FirstFailure(bf)
        /\ Finished(bf) =>
              bf.result = [kind |-> "Err", error |-> "Step",
                           stage |-> Stages[FirstFailure(bf)],
                           stderr |-> bf.exits[FirstFailure(bf)].stderr]

\* C3: build_file returns Ok only when all three steps exited with status
\* zero.
C3_OkOnlyIfAllZero ==
    (Finished(bf) /\ bf.result = ResultOk) =>
        /\ Len(bf.exits) = 3
        /\ ~HasFailure(bf)

\* ---------------------------------------------------------------- worker properties

Last(s) == s[Len(s)]

Building(pc) == pc \in {"build_file", "notify"}

Stopped(pc) == pc \in {"unwatch", "exited"}

\* C4 as stated: once the cancellation signal has been sent, on_start is
\* never invoked again, whatever the worker was doing (here: anything but
\* being about to invoke on_start already).
C4_NoStartAfterCancel ==
    \A w \in Canisters :
        (cancelAt[w].sent /\ cancelAt[w].pc # "on_start") =>
            NStart(w) = cancelAt[w].starts

\* C4 as amended: once the cancellation signal has been sent, on_start is
\* invoked at most once more, and not at all when the signal was sent during
\* a build or just before the worker polls the cancellation channel.
C4_AtMostOneStartAfterCancel ==
    \A w \in Canisters :
        cancelAt[w].sent =>
            /\ NStart(w) <= cancelAt[w].starts + 1
            /\ (Building(cancelAt[w].pc) \/ cancelAt[w].pc = "try_recv") =>
                   NStart(w) = cancelAt[w].starts

C4_Witness ==
    /\ cancelAt["a"].sent
    /\ cancelAt["a"].pc = "recv_timeout"
    /\ NStart("a") = cancelAt["a"].starts + 1
    /\ wpc["a"] = "exited"

\* C5 as stated: the notifications delivered together in one burst trigger
\* one rebuild for the whole burst, so there are never more rebuilds than
\* bursts.
C5_OneRebuildPerBurst ==
    \A w \in Canisters : NStart(w) <= 1 + bursts[w]

\* C5 as amended: the worker does not coalesce: every notification stays
\* queued until the worker takes it, and every notification taken starts its
\* own rebuild.
C5_OneRebuildPerNotification ==
    \A w \in Canisters :
        /\ wpc[w] # "exited" => recvd[w] + rx[w] = delivered[w]
        /\ NStart(w) = recvd[w] + (IF wpc[w] \in {"nothread", "on_start"} THEN 0 ELSE 1)

C5_Witness ==
    /\ bursts["a"] = 1
    /\ delivered["a"] >= 2
    /\ recvd["a"] = delivered["a"]
    /\ NStart("a") = 1 + delivered["a"]

\* C6: once watch_file has registered the watch, the worker's first act is
\* the initial build: on_start comes before any try_recv or recv_timeout,
\* exactly one build has started while no notification has been received, and
\* every further build has a received notification behind it.
C6_InitialBuildFirst ==
    \A w \in Canisters :
        /\ wf_ret[w] = "Ok" => wpc[w] # "nothread"
        /\ (polled[w] \/ recvd[w] > 0 \/ wpc[w] \notin {"nothread", "on_start"}) =>
               /\ trace[w] # <<>>
               /\ Head(trace[w]) = "on_start"
        /\ (recvd[w] = 0 /\ wpc[w] \notin {"nothread", "on_start"}) => NStart(w) = 1
        /\ NStart(w) <= 1 + recvd[w]

C6_Witness ==
    /\ wf_ret["a"] = "Ok"
    /\ NStart("a") = 1
    /\ ~polled["a"]
    /\ recvd["a"] = 0
    /\ rx["a"] > 0
    /\ receiver["a"] > 0

CancelledDuringBuild(w) == cancelAt[w].sent /\ Building(cancelAt[w].pc)

\* The safety half of C7: after a signal sent during a build, no further
\* on_start, and the worker leaves the build only through its completion
\* callback.
C7_NotInterrupted ==
    \A w \in Canisters :
        CancelledDuringBuild(w) =>
            /\ NStart(w) = cancelAt[w].starts
            /\ NComplete(w) < NStart(w) => Building(wpc[w])
            /\ Stopped(wpc[w]) => NComplete(w) = NStart(w)
            /\ wpc[w] \in {"build_file", "notify", "try_recv", "unwatch", "exited"}

\* C7: a build during which the cancellation signal is sent is not
\* interrupted: the worker stays in it until its completion callback has
\* fired, only then observes the signal and stops, and starts no further
\* build whatever is queued on the event channel; with the worker scheduled
\* and the build's processes returning, it does reach that stop.
C7_InFlightBuildCompletes ==
    /\ []C7_NotInterrupted
    /\ \A w \in Canisters :
          CancelledDuringBuild(w) ~> (wpc[w] = "exited" /\ NComplete(w) = NStart(w))

C7_Witness ==
    /\ CancelledDuringBuild("a")
    /\ wpc["a"] = "exited"
    /\ delivered["a"] > recvd["a"]
    /\ Last(trace["a"]) \in {"on_done", "on_error"}

\* C8: a failed build never stops the worker and is not returned by
\* watch_file: the failure goes to on_error, the worker is back in its loop,
\* and only a received cancellation signal ends the loop.
C8_FailureKeepsWatching ==
    \A w \in Canisters :
        /\ trace[w] # <<>> => wf_ret[w] = "Ok"
        /\ Stopped(wpc[w]) => cancelAt[w].sent
        /\ (trace[w] # <<>> /\ Last(trace[w]) = "on_error") =>
               wpc[w] \in {"try_recv", "recv_timeout", "on_start", "unwatch", "exited"}
        /\ (trace[w] # <<>> /\ Last(trace[w]) = "Err") => wpc[w] = "notify"

C8_Witness ==
    /\ \E i \in DOMAIN trace["a"] :
          /\ trace["a"][i] = "on_error"
          /\ i < Len(trace["a"])
          /\ trace["a"][i + 1] = "on_start"
    /\ ~cancelAt["a"].sent
    /\ wf_ret["a"] = "Ok"

\* C9: the worker's callbacks follow the protocol on_start, build_file,
\* then on_done if build_file returned Ok and on_error if it returned Err;
\* the pipeline runs only between on_start and the completion callback, and
\* the next on_start comes only after the completion callback.
C9_CallbackProtocol ==
    \A w \in Canisters :
        /\ \A i \in DOMAIN trace[w] :
              /\ i % 3 = 1 => trace[w][i] = "on_start"
              /\ i % 3 = 2 => trace[w][i] \in {"Ok", "Err"}
              /\ i % 3 = 0 =>
                    \/ trace[w][i - 1] = "Ok" /\ trace[w][i] = "on_done"
                    \/ trace[w][i - 1] = "Err" /\ trace[w][i] = "on_error"
        /\ wpc[w] = "build_file" => Len(trace[w]) % 3 = 1
        /\ wpc[w] = "notify" => Len(trace[w]) % 3 = 2
        /\ wpc[w] \notin {"build_file", "notify"} =>
              Len(trace[w]) % 3 = 0 /\ wbf[w] = BuildIdle

C9_Witness ==
    /\ Count(trace["a"], "on_done") >= 1
    /\ Count(trace["a"], "on_error") >= 1
    /\ NStart("a") = NComplete("a")

\* C10: when registering the watch fails, watch_file returns the error, no
\* worker exists, no build runs and no callback is ever invoked.
C10_RegistrationFailure ==
    \A w \in Canisters :
        wf_ret[w] = "Err" =>
            /\ wpc[w] = "nothread"
            /\ handle[w] = "none"
            /\ trace[w] = <<>>
            /\ wbf[w] = BuildIdle
            /\ ~watched[w]

C10_Witness == wf_ret["a"] = "Err"

\* C11: the worker calls unwatch exactly once, after it has left the loop
\* on a cancellation signal and with no build in progress; it has not exited
\* without the watch being released, and until it has left the loop and
\* called unwatch the watch stays registered.
C11_WatchReleasedOnce ==
    \A w \in Canisters :
        /\ Len(released[w]) <= 1
        /\ Len(released[w]) = 1 <=> wpc[w] = "exited"
        /\ wpc[w] = "exited" =>
              /\ ~watched[w]
              /\ cancelAt[w].sent
              /\ NComplete(w) = NStart(w)
              /\ wbf[w] = BuildIdle
        /\ wpc[w] \notin {"nothread", "exited"} =>
              /\ watched[w]
              /\ released[w] = <<>>

C11_Witness ==
    /\ wpc["a"] = "exited"
    /\ Len(released["a"]) = 1
    /\ NStart("a") >= 2
    /\ ~watched["a"]

\* C12: the builds of one watched file are strictly sequential: at most
\* one build is in progress, one is in progress exactly while the worker is
\* inside build_and_notify after on_start, and every on_start but the first
\* directly follows the previous build's on_done or on_error.
C12_StrictlySequential ==
    \A w \in Canisters :
        /\ NStart(w) - NComplete(w) \in {0, 1}
        /\ NStart(w) = NComplete(w) + 1 <=> Building(wpc[w])
        /\ wbf[w].at # 0 => wpc[w] = "build_file"
        /\ \A i \in DOMAIN trace[w] :
              (i > 1 /\ trace[w][i] = "on_start") =>
                  trace[w][i - 1] \in {"on_done", "on_error"}

C12_Witness ==
    /\ NStart("a") = 3
    /\ NComplete("a") = 2
    /\ rx["a"] > 0
    /\ wpc["a"] = "build_file"

\* C18 as stated: when unwatch returns an error during teardown, on_error
\* is invoked for it.
C18_TeardownFailureReported ==
    \A w \in Canisters :
        (released[w] # <<>> /\ Last(released[w]) = "err") =>
            /\ trace[w] # <<>>
            /\ Last(trace[w]) = "on_error"
            /\ Count(trace[w], "on_error") = Count(trace[w], "Err") + 1

\* C18 as amended: the result of unwatch is ignored: after teardown,
\* whatever unwatch returned, on_error has been invoked exactly once per
\* build_file error and for nothing else, and the callbacks are those of the
\* builds alone.
C18_TeardownFailureIgnored ==
    \A w \in Canisters :
        wpc[w] = "exited" =>
            /\ Count(trace[w], "on_error") = Count(trace[w], "Err")
            /\ Len(trace[w]) = 3 * NStart(w)
            /\ NComplete(w) = NStart(w)

C18_Witness ==
    /\ wpc["a"] = "exited"
    /\ released["a"] = <<"err">>
    /\ Count(trace["a"], "on_error") = 0
    /\ NStart("a") >= 1

\* Everything that belongs to one canister's watch_file call and worker.
WorkerState(w) ==
    << wf_ret[w], handle[w], sends[w], receiver[w], rx[w], delivered[w],
       watched[w], wpc[w], wbf[w], trace[w], recvd[w], polled[w], cancelAt[w],
       bursts[w], released[w] >>

\* C13: workers of separate watch_file calls are independent: every step
\* (of a worker, of the watcher, of a Sender's holder) changes the state of
\* one canister's worker only, and a worker's channels hold only its own
\* traffic: it stops and releases its watch only after a signal on its own
\* Sender, and builds only for its own notifications.
C13_WorkersIndependent ==
    /\ [][\A w \in Canisters :
            WorkerState(w)' # WorkerState(w) =>
                \A v \in Canisters \ {w} : WorkerState(v)' = WorkerState(v)]_vars
    /\ [](\A w \in Canisters :
            /\ receiver[w] <= sends[w]
            /\ rx[w] + recvd[w] <= delivered[w]
            /\ NStart(w) <= 1 + delivered[w]
            /\ (Stopped(wpc[w]) \/ released[w] # <<>>) => cancelAt[w].sent
            /\ (wf_ret[w] = "Ok" /\ wpc[w] # "exited") => watched[w])

C13_Witness ==
    /\ wpc["a"] = "exited"
    /\ cancelAt["a"].sent
    /\ delivered["a"] = 0
    /\ ~cancelAt["b"].sent
    /\ delivered["b"] >= 1
    /\ NStart("b") = 2
    /\ wpc["b"] = "recv_timeout"
    /\ watched["b"]

\* ---------------------------------------------------------------- the build command's properties

\* build_file or watch_file has been called for canister c.
Entered(c) ==
    \/ exec.pc = "build_file" /\ config[exec.i].name = c
    \/ \E k \in 1..Len(exec.built) : exec.built[k].canister = c
    \/ c \in canisters

\* A compiler or binding-generator process has been run for canister c.
HasRun(c) ==
    \/ input_path = InputOf(c) /\ bf.calls # <<>>
    \/ \E k \in 1..Len(exec.built) : exec.built[k].canister = c /\ exec.built[k].calls > 0
    \/ wbf[c].calls # <<>>
    \/ NComplete(c) > 0

DirCreationFailed ==
    /\ exec.pc = "returned"
    /\ exec.result.kind = "Err"
    /\ exec.result.at = "create_dir_all"

\* C14: the directory of a canister's outputs exists, with all its
\* ancestors, before build_file or watch_file is entered for the canister,
\* so before any process is run for it; when creating it fails, exec
\* returns the error, no build is in progress, and nothing is entered or
\* run for that canister or for any later one.
C14_DirCreatedFirst ==
    /\ \A c \in Canisters :
         /\ HasRun(c) => Entered(c)
         /\ Entered(c) => Ancestors(OutputDirOf(c)) \subseteq dirs
    /\ DirCreationFailed =>
         /\ bf = BuildIdle
         /\ exec.result.canister = config[exec.i].name
         /\ OutputDirOf(exec.result.canister) \notin dirs
         /\ \A k \in exec.i..Len(config) :
              ~Entered(config[k].name) /\ ~HasRun(config[k].name)

\* The first canister was built, with its three processes, in a directory
\* exec created; creating the second canister's directory failed.
C14_Witness ==
    /\ DirCreationFailed
    /\ exec.i = 2
    /\ Len(exec.built) = 1
    /\ exec.built[1].calls = 3
    /\ HasRun(config[1].name)

\* ---------------------------------------------------------------- command builder properties

\* The command line the external tools' grammar fixes for a builder with
\* input and output set: the flag, when set, right after the binary.
GrammarArgs(b) ==
    << Arg(BinaryOf(b.kind)) >>
      \o (IF b.flag THEN << Arg(FlagOf(b.kind)) >> ELSE <<>>)
      \o << b.input_path.value, Arg("-o"), b.output_path.value >>

\* C15: every process a builder with input and output set has spawned was
\* run as `<bin> --idl <input> -o <output>` (ActorScript, flag set),
\* `<bin> --js <input> -o <output>` (IdlCompiler, flag set) or
\* `<bin> <input> -o <output>` (flag not set), whatever the order of the
\* setter calls.
C15_FixedGrammar ==
    \A k \in 1..Len(children) :
        (children[k].of.input_path.some /\ children[k].of.output_path.some)
            => children[k].argv = GrammarArgs(children[k].of)

\* C16 as stated: every exec call spawns exactly one child; status zero
\* returns Ok; a non-zero status returns the builder's build error with the
\* standard-error text.
C16_NonZeroIsToolError ==
    \A k \in 1..Len(builder.results) :
        LET r == builder.results[k]
            o == r.outcome
        IN  /\ r.spawned = 1
            /\ (o.kind = "exit" /\ o.status = 0) => r.result = ResultOk
            /\ (o.kind = "exit" /\ o.status # 0) =>
                 r.result = [kind |-> "Err", error |-> "BuildError",
                             tool |-> ErrorKindOf(builder.kind),
                             text |-> o.stderr.text]

Spawned(results) == Len(SelectSeq(results, LAMBDA r : r.outcome.kind # "ioerr"))

\* C16, amended: every exec call makes one attempt to spawn, so spawns one
\* child or, when spawning fails, none, and then returns the io error;
\* status zero returns Ok whatever was written to stdout and stderr; a
\* non-zero status returns the builder's build error with the
\* standard-error text when that text is valid UTF-8, and the UTF-8
\* conversion error, which names no tool and carries no text, when it is not.
C16_OutcomeMapping ==
    /\ Len(children) = Spawned(builder.results)
    /\ \A k \in 1..Len(builder.results) :
        LET r == builder.results[k]
            o == r.outcome
        IN  /\ r.spawned = (IF o.kind = "ioerr" THEN 0 ELSE 1)
            /\ o.kind = "ioerr" => r.result = ResultIo
            /\ (o.kind = "exit" /\ o.status = 0) => r.result = ResultOk
            /\ (o.kind = "exit" /\ o.status # 0 /\ o.stderr.utf8) =>
                 r.result = [kind |-> "Err", error |-> "BuildError",
                             tool |-> ErrorKindOf(builder.kind),
                             text |-> o.stderr.text]
            /\ (o.kind = "exit" /\ o.status # 0 /\ ~o.stderr.utf8) =>
                 r.result = [kind |-> "Err", error |-> "Utf8"]

\* An exec call whose process exited non-zero with standard error that is
\* not UTF-8.
C16_Witness ==
    /\ Len(children) = 1
    /\ \E k \in 1..Len(builder.results) :
         LET o == builder.results[k].outcome
         IN  o.kind = "exit" /\ o.status # 0 /\ ~o.stderr.utf8

\* ---------------------------------------------------------------- version and environment properties

Constructed == env.pc = "constructed"

\* C17: a constructed in-project environment has the project's declared
\* version when the configuration declares one and otherwise the value
\* dfx_version() returned, a constructed global environment has the value
\* dfx_version() returned, and in both the binary map's version is the
\* environment's version (what get_version reports).
C17_EnvironmentVersion ==
    Constructed =>
        /\ env.binary_map.version = env.version
        /\ env.kind = "InProject" => project.found
        /\ (env.kind = "InProject" /\ project.dfx.some) =>
               env.version = project.dfx.value
        /\ (env.kind = "Global" \/ ~project.dfx.some) =>
               /\ dv.rets # <<>>
               /\ env.version = dv.rets[Len(dv.rets)]
               /\ DFX_VERSION = Some(env.version)

\* An in-project environment of a project that declares no version.
C17_Witness ==
    /\ Constructed
    /\ env.kind = "InProject"
    /\ ~project.dfx.some
    /\ env.version = DebugVersion

\* C19: every call of dfx_version returns.
C19_DfxVersionTerminates == (dv.pc = "running") ~> (dv.pc = "returned")

\* What holds of dfx_version: outside debug builds no call ever returns and
\* nothing is memoized; in debug builds the version with the debug suffix
\* is assigned once and every call returns it.
DfxVersionMemo ==
    /\ ~is_debug => dv.rets = <<>> /\ DFX_VERSION = None /\ dv.assigned = 0
    /\ is_debug =>
         /\ dv.assigned <= 1
         /\ \A k \in 1..Len(dv.rets) : dv.rets[k] = DebugVersion
         /\ dv.pc # "stack overflow"

\* C20: in a debug build every is_installed call returns Ok(false),
\* whatever the cache holds and whatever install calls came before; in a
\* non-debug build it returns what the cache answered for the
\* environment's version.
C20_IsInstalled ==
    \A k \in 1..Len(probes) :
        probes[k].op = "is_installed" =>
            /\ probes[k].version = env.version
            /\ is_debug => probes[k].result = [kind |-> "Ok", value |-> FALSE]
            /\ ~is_debug => probes[k].result = probes[k].cached

\* A debug build's global environment: install succeeded, the version is
\* in the cache, and is_installed was asked after that.
C20_Witness ==
    /\ is_debug
    /\ env.kind = "Global"
    /\ Len(probes) >= 2
    /\ probes[1].op = "install" /\ probes[1].result = ResultOk
    /\ probes[2].op = "is_installed" /\ env.version \in probes[2].cache
    /\ probes[2].cached = [kind |-> "Ok", value |-> TRUE]

\* ---------------------------------------------------------------- one-shot mode properties

\* The names of the canisters with a main file among the first n entries.
MainNames(n) ==
    LET ms == SelectSeq(SubSeq(config, 1, n), LAMBDA e : e.kind = "main")
    IN  [k \in 1..Len(ms) |-> ms[k].name]

BuiltNames == [k \in 1..Len(exec.built) |-> exec.built[k].canister]

ExecFailedAt(at) ==
    exec.pc = "returned" /\ exec.result.kind = "Err" /\ exec.result.at = at

\* C21: in one-shot mode build_file is called once for each canister that
\* has a main file, in the configuration's order, and for no other; the
\* first error of from_value, create_dir_all or build_file is exec's
\* result, and no canister after the failing one is built; exec returns Ok
\* only after every such canister was built with Ok.
C21_OneShotPropagates ==
    exec.mode = "build" =>
        /\ BuiltNames = MainNames(exec.i - 1)
                          \o (IF ExecFailedAt("build_file")
                              THEN << config[exec.i].name >> ELSE <<>>)
        /\ \A k \in 1..Len(exec.built) :
             /\ exec.built[k].calls <= 3
             /\ exec.built[k].result = "Err" =>
                  /\ k = Len(exec.built)
                  /\ ExecFailedAt("build_file")
                  /\ exec.result.error = "Io"
                  /\ exec.result.canister = exec.built[k].canister
        /\ ExecFailedAt("build_file") => exec.built[Len(exec.built)].result = "Err"
        /\ ExecFailedAt("from_value") => config[exec.i].kind = "invalid"
        /\ ExecFailedAt("create_dir_all") =>
             /\ config[exec.i].kind = "main"
             /\ exec.result.error = "Io"
        /\ (exec.pc = "returned" /\ exec.result.kind = "Err") =>
             /\ exec.i <= Len(config)
             /\ exec.result.canister = config[exec.i].name
             /\ bf = BuildIdle
             /\ \A k \in (exec.i + 1)..Len(config) : ~HasRun(config[k].name)
        /\ (exec.pc = "returned" /\ exec.result = ResultOk) =>
             /\ exec.i = Len(config) + 1
             /\ \A k \in 1..Len(exec.built) : exec.built[k].result = "Ok"

\* build_file failed for the first of two canisters with a main file: exec
\* has returned that error and the second was not built.
C21_Witness ==
    /\ exec.mode = "build"
    /\ ExecFailedAt("build_file")
    /\ exec.i = 1
    /\ Len(config) = 2
    /\ config[2].kind = "main"
    /\ ~HasRun(config[2].name)

\* ---------------------------------------------------------------- cancellation and notifications

\* The worker has left the loop, released the watch and ended.
Exited(w) ==
    /\ wpc[w] = "exited"
    /\ ~watched[w]
    /\ Len(released[w]) = 1

\* C22: once the cancellation message has been sent the worker starts at
\* most one more build, and it does leave the loop, release the watch and
\* exit, also when notifications go on arriving.
C22_CancelledWorkerExits ==
    /\ [](\A w \in Canisters :
            cancelAt[w].sent => NStart(w) <= cancelAt[w].starts + 1)
    /\ \A w \in Canisters :
         (cancelAt[w].sent /\ wpc[w] # "nothread") ~> Exited(w)

\* The worker has exited, having started one more build after the message
\* was sent, although notifications went on arriving after it: MaxQueued of
\* them were never taken from the channel.
C22_Witness ==
    /\ Exited("a")
    /\ delivered["a"] > MaxEarlyEvents
    /\ delivered["a"] - recvd["a"] >= MaxQueued
    /\ NStart("a") = cancelAt["a"].starts + 1

\* The Sender was dropped without a message ever having been sent on it.
DroppedUnsent(w) == handle[w] = "dropped" /\ sends[w] = 0

\* C23: a worker to which no message was sent is never stopped and keeps
\* its watch registered, whether the Sender is held or dropped; after the
\* Sender was dropped unsent the worker goes on taking the notifications
\* and building: it catches up with everything delivered, having completed
\* the initial build and one build per notification.
C23_DroppedHandleKeepsWatching ==
    /\ [](\A w \in Canisters :
            /\ Stopped(wpc[w]) => cancelAt[w].sent
            /\ (~cancelAt[w].sent /\ wpc[w] # "nothread") =>
                 watched[w] /\ released[w] = <<>>)
    /\ \A w \in Canisters :
         DroppedUnsent(w) ~>
            (rx[w] = 0 /\ recvd[w] = delivered[w] /\ NComplete(w) = delivered[w] + 1)

\* The Sender was dropped unsent while the worker was building; the worker
\* has since polled the disconnected channel, taken every notification and
\* built for each, and waits for the next with the watch registered.
C23_Witness ==
    /\ DroppedUnsent("a")
    /\ watched["a"]
    /\ wpc["a"] = "recv_timeout"
    /\ recvd["a"] = MaxEvents
    /\ NComplete("a") = MaxEvents + 1

\* The worker has caught up: the channel is empty and the initial build and
\* one build per delivered notification have started.
CaughtUp(w) == rx[w] = 0 /\ recvd[w] = delivered[w] /\ NStart(w) = delivered[w] + 1

\* C24: while the worker has not observed a cancellation, every delivered
\* notification is either still queued or was taken by the worker, and a
\* build starts only for a notification taken; a step taken while a build
\* is in progress removes nothing from the channel and queues what is
\* delivered; a notification waiting while a build is in progress is
\* followed by the worker catching up, unless it observes a cancellation
\* first; the initial build and the notifications taken each start exactly
\* one build.
C24_NoNotificationLost ==
    /\ [](\A w \in Canisters :
            /\ ~Stopped(wpc[w]) => recvd[w] + rx[w] = delivered[w]
            /\ recvd[w] <= delivered[w]
            /\ NStart(w) \in {recvd[w], recvd[w] + 1}
            /\ NStart(w) = recvd[w] <=> wpc[w] \in {"nothread", "on_start"})
    /\ [][\A w \in Canisters :
            Building(wpc[w]) =>
                /\ recvd'[w] = recvd[w]
                /\ rx'[w] - rx[w] = delivered'[w] - delivered[w]
                /\ rx'[w] >= rx[w]]_vars
    /\ \A w \in Canisters :
         (Building(wpc[w]) /\ rx[w] > 0) ~> (Stopped(wpc[w]) \/ CaughtUp(w))

\* One delivery put MaxEvents notifications on the channel; all but the one
\* taken first waited there while a build was in progress, and the worker,
\* to which no message was sent, has built once for each of them.
C24_Witness ==
    /\ ~cancelAt["a"].sent
    /\ bursts["a"] = 1
    /\ delivered["a"] = MaxEvents
    /\ CaughtUp("a")
    /\ NComplete("a") = MaxEvents + 1
    /\ wpc["a"] = "recv_timeout"

====
